---- MODULE Spec2Model ----
(***************************************************************************)
(* vite-plugin-webmanifest: the manifest resolution and asset-rewriting    *)
(* pipeline (generateBundle, the concurrent icon operations, the shared    *)
(* file/path caches and the post-write relocation of writeBundle).         *)
(*                                                                         *)
(* Strings are sequences of tokens ("/", "./", "assets/", a stem, a hash,  *)
(* an extension), so concatenation is \o and startsWith/endsWith/slice are *)
(* computed on the tokens.  A JSON text is [valid, indent, value]; an HTML *)
(* text is [links |-> the manifest link elements it holds].                *)
(***************************************************************************)
EXTENDS Integers, Sequences, FiniteSets, TLC

\* ------------------------------------------------------------------ bounds
MaxIcons == 2

MaxPasses == 3

MaxEdits == 1

\* ----------------------------------------------------------------- strings
StartsWith(s, t) ==
    Len(t) <= Len(s) /\ SubSeq(s, 1, Len(t)) = t

EndsWith(s, t) ==
    Len(t) <= Len(s) /\ SubSeq(s, Len(s) - Len(t) + 1, Len(s)) = t

Slice(s, n) ==
    SubSeq(s, n + 1, Len(s))

Last(s) ==
    s[Len(s)]

HTML_EXTENSION ==
    <<".html">>

ExtTokens ==
    {".png", ".json", ".html", ".js"}

DirTokens ==
    {"/", "./", "root/", "dist/", "assets/", "img/"}

\* path.extname: the extension of the last segment, "" when it has none
ExtName(p) ==
    IF Len(p) > 0 /\ Last(p) \in ExtTokens THEN <<Last(p)>> ELSE <<>>

\* path.basename(p, ext): the last segment without the extension
RECURSIVE LastSegment(_)
LastSegment(p) ==
    IF \E i \in 1..Len(p) : p[i] \in DirTokens
    THEN LastSegment(Tail(p))
    ELSE p

BaseName(p, ext) ==
    LET seg == LastSegment(p)
    IN  IF ext # <<>> /\ EndsWith(seg, ext)
        THEN SubSeq(seg, 1, Len(seg) - Len(ext))
        ELSE seg

\* path.resolve / path.join normalise "./" segments away
RECURSIVE Normalize(_)
Normalize(p) ==
    IF p = <<>> THEN <<>>
    ELSE IF Head(p) = "./" THEN Normalize(Tail(p))
    ELSE <<Head(p)>> \o Normalize(Tail(p))

Root ==
    <<"root/">>

PathJoin(dir, rel) ==
    dir \o Normalize(rel)

PathResolve(dir, rel) ==
    IF StartsWith(rel, <<"/">>) THEN Normalize(rel) ELSE dir \o Normalize(rel)

resolveIconPath(src, root) ==
    IF StartsWith(src, <<"/">>)
    THEN PathJoin(root, Slice(src, 1))
    ELSE PathResolve(root, src)

\* ------------------------------------------------------------ host bundler
\* the content hash the host puts into an emitted asset's name
Hash(source) ==
    ToString(source)

\* this.emitFile({type: 'asset', name, source}) followed by this.getFileName:
\* the host's assetFileNames pattern, [assetsDir][name]-[hash][extname]
HostFileName(dir, name, source) ==
    dir \o BaseName(name, ExtName(name)) \o <<Hash(source)>> \o ExtName(name)

AssetEntry(source) ==
    [type |-> "asset", str |-> FALSE, source |-> source]

TextEntry(source) ==
    [type |-> "asset", str |-> TRUE, source |-> source]

ChunkEntry ==
    [type |-> "chunk", str |-> FALSE, source |-> "code"]

\* --------------------------------------------------------------- documents
Link(href) ==
    [has |-> TRUE, href |-> href]

LinkNoHref ==
    [has |-> FALSE, href |-> <<>>]

Html(links) ==
    [links |-> links]

\* JSON.parse of a text, JSON.stringify(value, null, indent)
JsonParse(text) ==
    text.value

JsonStringify(value, indent) ==
    [valid |-> TRUE, indent |-> indent, value |-> value]

InvalidJson ==
    [valid |-> FALSE, indent |-> 0, value |-> <<>>]

Has(rec, key) ==
    key \in DOMAIN rec

Without(rec, key) ==
    [k \in DOMAIN rec \ {key} |-> rec[k]]

Opt(key, o) ==
    IF o = {} THEN <<>> ELSE key :> (CHOOSE x \in o : TRUE)

MkIcon(src) ==
    [src |-> src, sizes |-> "192x192", type |-> "image/png"]

MkShortcut(icons) ==
    [name |-> "Open", url |-> <<"/", "open">>, description |-> "d", icons |-> icons]

MkShortcutIcon(src) ==
    [src |-> src, sizes |-> "96x96"]

\* a shortcut without the optional icons member
BareShortcut ==
    [name |-> "Docs", url |-> <<"/", "docs">>, description |-> "d"]

\* ------------------------------------------------------------ project files
IndexPath ==
    PathResolve(Root, <<"index", ".html">>)

IconFile ==
    Root \o <<"icon", ".png">>

ShotFile ==
    Root \o <<"shot", ".png">>

AssetFiles ==
    {IconFile, ShotFile}

FirstBytes(f) ==
    IF f = IconFile THEN "i1" ELSE "s1"

EditedBytes(f) ==
    IF f = IconFile THEN "i2" ELSE "s2"

ManifestRef ==
    <<"manifest", ".json">>

IconRefs ==
    {<<"/", "icon", ".png">>, <<"shot", ".png">>}

SeqsUpTo(S, n) ==
    UNION {[1..m -> S] : m \in 0..n}

IconSeqs ==
    {[i \in DOMAIN s |-> MkIcon(s[i])] : s \in SeqsUpTo(IconRefs, MaxIcons)}

ShotSeqs ==
    {<<>>, <<MkIcon(<<"/", "shot", ".png">>)>>}

ShortcutSeqs ==
    {<<>>, <<MkShortcut(<<>>)>>, <<MkShortcut(<<MkShortcutIcon(<<"./", "icon", ".png">>)>>)>>,
     <<MkShortcut(<<MkShortcutIcon(<<"./", "icon", ".png">>)>>), BareShortcut>>}

OptOf(S) ==
    {{}} \cup {{x} : x \in S}

OldScope ==
    <<"/", "old/">>

MkManifest(ic, ss, sc, sp) ==
    [name |-> "app", display |-> "standalone"]
        @@ Opt("icons", ic) @@ Opt("screenshots", ss) @@ Opt("shortcuts", sc)
        @@ Opt("scope", sp) @@ Opt("start_url", sp)

\* the manifests of a one-shot build, and the two-icon ones of a watch session
BuildManifests ==
    {MkManifest(ic, ss, sc, sp) :
        ic \in OptOf(IconSeqs), ss \in OptOf(ShotSeqs),
        sc \in OptOf(ShortcutSeqs), sp \in OptOf({OldScope})}

WatchManifests ==
    {MkManifest({<<MkIcon(a), MkIcon(b)>>}, {}, {}, {}) :
        a, b \in {<<"/", "icon", ".png">>, <<"/", "shot", ".png">>}}

BrokenIndexDocs ==
    {Html(<<>>), Html(<<Link(<<>>)>>), Html(<<LinkNoHref>>),
     Html(<<Link(<<"/", "nowhere", ".json">>)>>)}

AssetDisks ==
    {[f \in S |-> FirstBytes(f)] : S \in SUBSET AssetFiles}

\* the project directories a build can start from
ProjectDisks(href, ref, manifests) ==
    {(IndexPath :> Html(<<Link(href)>>)) @@ (Root \o ref :> JsonStringify(m, 2)) @@ ad :
        m \in manifests, ad \in AssetDisks}

\* a manifest file without an extension
BareManifestRef ==
    <<"manifest">>

BareDisks ==
    ProjectDisks(<<"/">> \o BareManifestRef, BareManifestRef,
                 {MkManifest({<<MkIcon(<<"/", "icon", ".png">>)>>}, {}, {}, {})})

BrokenDisks ==
    {(Root \o ManifestRef :> JsonStringify(MkManifest({}, {}, {}, {}), 2))}
    \cup {(IndexPath :> ix) @@ (Root \o ManifestRef :> JsonStringify(MkManifest({}, {}, {}, {}), 2)) :
            ix \in BrokenIndexDocs}
    \cup {(IndexPath :> Html(<<Link(ManifestRef)>>)) @@ (Root \o ManifestRef :> InvalidJson),
          (IndexPath :> Html(<<Link(ManifestRef)>>))}

\* ------------------------------------------------------------------- state
VARIABLES
    configured,             \* configResolved has run
    base,                   \* the plugin's base
    options,                \* options.manifestOutput as given, or "undefined"
    manifestOutput,         \* options.manifestOutput, defaulted
    assetsDir,              \* the host's assets directory prefix of emitted names
    watch,                  \* the host rebuilds on change (build --watch)
    disk,                   \* the project directory: path -> content
    edits,                  \* number of edits made to the project directory
    fileCache,              \* module-level Map path -> Buffer
    pathCache,              \* module-level Map path -> {ext, name}
    storedManifestFileName, \* "" (<<>>) while undefined
    cur,                    \* number of the latest pass, 0 before the first
    pass,                   \* per pass: phase, manifest, operations, bundle
    dist                    \* the output directory: name -> content

vars ==
    <<configured, base, options, manifestOutput, assetsDir, watch, disk, edits, fileCache,
      pathCache, storedManifestFileName, cur, pass, dist>>

EmptyMap ==
    <<>>

Put(map, key, value) ==
    [k \in DOMAIN map \cup {key} |-> IF k = key THEN value ELSE map[k]]

Passes ==
    1..MaxPasses

IdlePass ==
    [phase |-> "idle", manifestPath |-> <<>>, input |-> <<>>, json |-> <<>>,
     tasks |-> <<>>, given |-> EmptyMap, bundle |-> EmptyMap, emitted |-> {},
     manifestfileName |-> <<>>, error |-> "", files |-> {},
     fault |-> "", log |-> {}, snapshot |-> EmptyMap, thrown |-> FALSE]

Ended ==
    {"failed", "finished"}

\* the bundle the host hands to generateBundle: the HTML outputs, its own
\* unprocessed copy of the linked manifest, another file with that extension,
\* and a chunk
HostBundle(d) ==
    LET linked == {ref \in {ManifestRef, BareManifestRef} : Root \o ref \in DOMAIN d}
        copy == [n \in {HostFileName(assetsDir, ref, d[Root \o ref]) : ref \in linked} |->
                    AssetEntry(d[Root \o (CHOOSE ref \in linked : TRUE)])]
        html == IF IndexPath \in DOMAIN d
                THEN (<<"index", ".html">> :> TextEntry(d[IndexPath]))
                ELSE EmptyMap
    IN  html @@ copy
        @@ (<<"about", ".html">> :> TextEntry(Html(<<Link(<<"/", "old", ".json">>)>>)))
        @@ (<<"plain", ".html">> :> TextEntry(Html(<<>>)))
        @@ (<<"raw", ".html">> :> AssetEntry(Html(<<Link(<<"/", "old", ".json">>)>>)))
        @@ (assetsDir \o <<"data", ".json">> :> AssetEntry("data"))
        @@ (assetsDir \o <<"index", ".js">> :> ChunkEntry)

\* mutant: the given option is ignored
DefaultedManifestOutputAlwaysRoot(given) ==
    "root"

\* const { manifestOutput = 'root' } = options
DefaultedManifestOutput(given) ==
    IF given = "undefined" THEN "root" ELSE given

Init ==
    /\ configured = FALSE
    /\ base = <<"./">>
    /\ options \in {"undefined", "assets", "root"}
    /\ manifestOutput = DefaultedManifestOutput(options)
    /\ assetsDir \in {<<"assets/">>, <<>>}
    /\ \/ /\ watch = FALSE
          /\ disk \in ProjectDisks(<<"/">> \o ManifestRef, ManifestRef, BuildManifests)
                        \cup BareDisks \cup BrokenDisks
       \/ /\ watch = TRUE
          /\ options = "assets"
          /\ assetsDir = <<"assets/">>
          /\ disk \in ProjectDisks(ManifestRef, ManifestRef, WatchManifests)
    /\ edits = 0
    /\ fileCache = EmptyMap
    /\ pathCache = EmptyMap
    /\ storedManifestFileName = <<>>
    /\ cur = 0
    /\ pass = [k \in Passes |-> IdlePass]
    /\ dist = EmptyMap

Bases ==
    {<<"/">>, <<"./">>}

\* configResolved(config): base = config.base (root = config.root is Root)
ConfigResolved ==
    /\ ~configured
    /\ configured' = TRUE
    /\ base' \in Bases
    /\ UNCHANGED <<options, manifestOutput, assetsDir, watch, disk, edits, fileCache, pathCache,
                   storedManifestFileName, cur, pass, dist>>

\* ------------------------------------------------------- generateBundle
exists(filePath) ==
    filePath \in DOMAIN disk

\* the manifest path found through index.html, "" (<<>>) while undefined
LocateManifest ==
    IF ~exists(IndexPath) THEN <<>>
    ELSE LET manifestLink == disk[IndexPath].links
         IN  IF Len(manifestLink) > 0
             THEN LET href == manifestLink[1].href
                  IN  IF manifestLink[1].has /\ href # <<>>
                      THEN IF StartsWith(href, <<"/">>)
                           THEN PathJoin(Root, Slice(href, 1))
                           ELSE PathResolve(Root, href)
                      ELSE <<>>
             ELSE <<>>

\* fileCache.clear(), then the read of index.html is awaited
GenerateBundleStart ==
    /\ configured
    /\ cur < (IF watch THEN MaxPasses ELSE 1)
    /\ cur > 0 => pass[cur].phase \in Ended
    /\ cur' = cur + 1
    /\ fileCache' = EmptyMap
    /\ pass' = [pass EXCEPT ![cur + 1] =
                    [IdlePass EXCEPT !.phase = "begun",
                                     !.given = HostBundle(disk),
                                     !.bundle = HostBundle(disk)]]
    /\ UNCHANGED <<configured, base, options, manifestOutput, assetsDir, watch, disk, edits,
                   pathCache, storedManifestFileName, dist>>

\* the operations that icons.map(async (icon) => ...) starts for one collection:
\* each runs synchronously up to its first await
PathInfo(iconPath) ==
    [ext |-> ExtName(iconPath), name |-> BaseName(iconPath, ExtName(iconPath))]

\* mutant: a missing file is skipped silently, its operation is simply done
StartOperationSkipsMissing(coll, i, j, icon, cache) ==
    LET iconPath == resolveIconPath(icon.src, Root)
        pathInfo == IF iconPath \in DOMAIN pathCache
                    THEN pathCache[iconPath] ELSE PathInfo(iconPath)
    IN  [coll |-> coll, i |-> i, j |-> j, path |-> iconPath,
         name |-> pathInfo.name \o pathInfo.ext,
         pc |-> IF ~exists(iconPath) THEN "done"
                ELSE IF iconPath \in DOMAIN cache THEN "settled" ELSE "reading",
         read |-> exists(iconPath) /\ iconPath \notin DOMAIN cache,
         bytes |-> IF ~exists(iconPath) THEN ""
                   ELSE IF iconPath \in DOMAIN cache THEN cache[iconPath]
                   ELSE disk[iconPath]]

\* mutant: a missing file is read and emitted as an empty file
StartOperationEmitsMissing(coll, i, j, icon, cache) ==
    LET iconPath == resolveIconPath(icon.src, Root)
        pathInfo == IF iconPath \in DOMAIN pathCache
                    THEN pathCache[iconPath] ELSE PathInfo(iconPath)
    IN  [coll |-> coll, i |-> i, j |-> j, path |-> iconPath,
         name |-> pathInfo.name \o pathInfo.ext,
         pc |-> IF iconPath \in DOMAIN cache THEN "settled" ELSE "reading",
         read |-> iconPath \notin DOMAIN cache,
         bytes |-> IF iconPath \in DOMAIN cache THEN cache[iconPath]
                   ELSE IF exists(iconPath) THEN disk[iconPath] ELSE ""]

StartOperation(coll, i, j, icon, cache) ==
    LET iconPath == resolveIconPath(icon.src, Root)
        pathInfo == IF iconPath \in DOMAIN pathCache
                    THEN pathCache[iconPath] ELSE PathInfo(iconPath)
    IN  [coll |-> coll, i |-> i, j |-> j, path |-> iconPath,
         name |-> pathInfo.name \o pathInfo.ext,
         pc |-> IF ~exists(iconPath) THEN "rejected"
                ELSE IF iconPath \in DOMAIN cache THEN "settled" ELSE "reading",
         read |-> exists(iconPath) /\ iconPath \notin DOMAIN cache,
         bytes |-> IF ~exists(iconPath) THEN ""
                   ELSE IF iconPath \in DOMAIN cache THEN cache[iconPath]
                   ELSE disk[iconPath]]

emitIcons(json, coll, cache) ==
    IF ~Has(json, coll) THEN <<>>
    ELSE [i \in DOMAIN json[coll] |-> StartOperation(coll, i, 0, json[coll][i], cache)]

RECURSIVE FlatMapShortcuts(_, _, _)
FlatMapShortcuts(shortcuts, n, cache) ==
    IF n > Len(shortcuts) THEN <<>>
    \* shortcut.icons.map on a shortcut without icons throws: flatMap stops here
    ELSE IF ~Has(shortcuts[n], "icons") THEN <<>>
    ELSE [j \in DOMAIN shortcuts[n].icons |->
              StartOperation("shortcuts", n, j, shortcuts[n].icons[j], cache)]
         \o FlatMapShortcuts(shortcuts, n + 1, cache)

\* shortcut.icons is undefined for some shortcut: emitShortcutIcons rejects
\* with the TypeError as soon as it is called
ShortcutsThrow(json) ==
    /\ Has(json, "shortcuts")
    /\ \E n \in DOMAIN json.shortcuts : ~Has(json.shortcuts[n], "icons")

emitShortcutIcons(json, cache) ==
    IF ~Has(json, "shortcuts") THEN <<>>
    ELSE FlatMapShortcuts(json.shortcuts, 1, cache)

StartedOperations(json, cache) ==
    emitIcons(json, "icons", cache) \o emitIcons(json, "screenshots", cache)
        \o emitShortcutIcons(json, cache)

\* pathCache after the operations have started: an entry for every existing path
PathCacheAfter(tasks) ==
    LET found == {tasks[t].path : t \in {u \in DOMAIN tasks : tasks[u].pc # "rejected"}}
    IN  [q \in DOMAIN pathCache \cup found |->
            IF q \in DOMAIN pathCache THEN pathCache[q] ELSE PathInfo(q)]

\* mutant: start_url is left as it was
SetScopeOnly(json, b) ==
    [k \in DOMAIN json \cup {"scope"} |-> IF k = "scope" THEN b ELSE json[k]]

SetScope(json, b) ==
    [k \in DOMAIN json \cup {"scope", "start_url"} |->
        IF k \in {"scope", "start_url"} THEN b ELSE json[k]]

\* mutant: the parse failure is only reported, and the pass goes on with {}
ParsedManifestReportsOnly(text) ==
    IF text.valid
    THEN [ok |-> TRUE, json |-> JsonParse(text)]
    ELSE [ok |-> TRUE, json |-> <<>>]

\* try { manifestJson = JSON.parse(await readFile(manifestPath)) } catch { this.error(...) }:
\* this.error throws, so no manifest is left to go on with
ParsedManifest(text) ==
    IF text.valid
    THEN [ok |-> TRUE, json |-> JsonParse(text)]
    ELSE [ok |-> FALSE, json |-> <<>>]

\* from the read of index.html to Promise.all: locate the manifest, parse it,
\* set scope and start_url, start every icon operation; or throw
GenerateBundleLocate ==
    /\ cur > 0
    /\ pass[cur].phase = "begun"
    /\ LET manifestPath == LocateManifest
       IN  IF manifestPath = <<>> \/ ~exists(manifestPath)
           THEN /\ pass' = [pass EXCEPT ![cur].phase = "failed",
                                        ![cur].error = "WebManifest file not found"]
                /\ UNCHANGED pathCache
           ELSE IF ~ParsedManifest(disk[manifestPath]).ok
           THEN /\ pass' = [pass EXCEPT ![cur].phase = "failed",
                                        ![cur].manifestPath = manifestPath,
                                        ![cur].error = "Failed to parse WebManifest file"]
                /\ UNCHANGED pathCache
           ELSE LET parsed == ParsedManifest(disk[manifestPath]).json
                    json == SetScope(parsed, base)
                    tasks == StartedOperations(json, fileCache)
                IN  /\ pass' = [pass EXCEPT ![cur].phase = "running",
                                            ![cur].manifestPath = manifestPath,
                                            ![cur].input = parsed,
                                            ![cur].files = DOMAIN disk,
                                            ![cur].snapshot = disk,
                                            ![cur].json = json,
                                            ![cur].tasks = tasks,
                                            ![cur].thrown = ShortcutsThrow(json)]
                    /\ pathCache' = PathCacheAfter(tasks)
    /\ UNCHANGED <<configured, base, options, manifestOutput, assetsDir, watch, disk, edits,
                   fileCache, storedManifestFileName, cur, dist>>

\* emitFileCallback's return value: the reference written into the manifest
\* mutant: the host's name is written as it is
FinalReferenceBare(fileName) ==
    fileName

FinalReference(fileName) ==
    <<"./">> \o fileName

\* mutant: the src of a shortcut icon is not rewritten
SetSrcSkipsShortcuts(json, task, ref) ==
    IF task.coll = "shortcuts"
    THEN json
    ELSE [json EXCEPT ![task.coll][task.i].src = ref]

\* mutant: the rewritten entry loses its sizes
SetSrcResetsSizes(json, task, ref) ==
    IF task.coll = "shortcuts"
    THEN [json EXCEPT !.shortcuts[task.i].icons[task.j] = [@ EXCEPT !.src = ref, !.sizes = "any"]]
    ELSE [json EXCEPT ![task.coll][task.i] = [@ EXCEPT !.src = ref, !.sizes = "any"]]

SetSrc(json, task, ref) ==
    IF task.coll = "shortcuts"
    THEN [json EXCEPT !.shortcuts[task.i].icons[task.j].src = ref]
    ELSE [json EXCEPT ![task.coll][task.i].src = ref]

\* what an awaited readFile hands over: the bytes as the file was when the read
\* began or as it is when the read completes
ReadResults(task) ==
    {task.bytes} \cup (IF exists(task.path) THEN {disk[task.path]} ELSE {})

\* an icon operation goes on after its await: getCachedFile fills the cache
\* and returns, emitFileCallback emits and names the asset, the src is rewritten
IconOperationResume(k, t) ==
    /\ pass[k].phase \in {"running", "failed"}
    /\ t \in DOMAIN pass[k].tasks
    /\ LET task == pass[k].tasks[t]
       IN  /\ task.pc \in {"reading", "settled"}
           \* a rejection raised while the operations were started reaches
           \* generateBundle before any read completes
           /\ (task.pc = "reading" /\ pass[k].phase = "running")
                 => /\ \A u \in DOMAIN pass[k].tasks : pass[k].tasks[u].pc # "rejected"
                    /\ ~pass[k].thrown
           /\ \E read \in (IF task.pc = "reading" THEN ReadResults(task) ELSE {task.bytes}) :
                LET cache == IF task.pc = "reading"
                             THEN Put(fileCache, task.path, read) ELSE fileCache
                    source == IF task.pc = "reading" THEN cache[task.path] ELSE task.bytes
                    fileName == HostFileName(assetsDir, task.name, source)
                IN  /\ fileCache' = cache
                    /\ pass' = [pass EXCEPT
                          ![k].tasks[t].pc = "done",
                          ![k].tasks[t].bytes = source,
                          ![k].bundle = Put(@, fileName, AssetEntry(source)),
                          ![k].emitted = @ \cup {[name |-> task.name, source |-> source,
                                                  path |-> task.path,
                                                  fileName |-> fileName]},
                          ![k].json = SetSrc(@, task, FinalReference(fileName))]
    /\ UNCHANGED <<configured, base, options, manifestOutput, assetsDir, watch, disk, edits,
                   pathCache, storedManifestFileName, cur, dist>>

\* Promise.all rejects with the first rejected operation: generateBundle throws
GenerateBundleReject ==
    /\ cur > 0
    /\ pass[cur].phase = "running"
    /\ pass[cur].thrown \/ \E t \in DOMAIN pass[cur].tasks : pass[cur].tasks[t].pc = "rejected"
    /\ LET rejected == {t \in DOMAIN pass[cur].tasks : pass[cur].tasks[t].pc = "rejected"}
           first == CHOOSE t \in rejected : \A u \in rejected : t <= u
       IN  pass' = [pass EXCEPT ![cur].phase = "failed",
                                \* emitShortcutIcons' promise is rejected at once, those
                                \* of emitIcons only after their inner Promise.all
                                ![cur].error = IF pass[cur].thrown THEN "TypeError"
                                               ELSE IF pass[cur].tasks[first].coll = "shortcuts"
                                               THEN "Shortcut icon file not found"
                                               ELSE "Icon file not found"]
    /\ UNCHANGED <<configured, base, options, manifestOutput, assetsDir, watch, disk, edits,
                   fileCache, pathCache, storedManifestFileName, cur, dist>>

\* mutant: an empty shortcuts array is kept
PruneEmptyScreenshotsOnly(json) ==
    IF Has(json, "screenshots") /\ Len(json.screenshots) = 0
    THEN Without(json, "screenshots") ELSE json

\* mutant: an empty icons array is removed as well
PruneEmptyAlsoIcons(json) ==
    LET a == IF Has(json, "screenshots") /\ Len(json.screenshots) = 0
             THEN Without(json, "screenshots") ELSE json
        b == IF Has(a, "shortcuts") /\ Len(a.shortcuts) = 0
             THEN Without(a, "shortcuts") ELSE a
    IN  IF Has(b, "icons") /\ Len(b.icons) = 0 THEN Without(b, "icons") ELSE b

\* "Remove empty arrays to avoid PWA warnings"
PruneEmpty(json) ==
    LET a == IF Has(json, "screenshots") /\ Len(json.screenshots) = 0
             THEN Without(json, "screenshots") ELSE json
    IN  IF Has(a, "shortcuts") /\ Len(a.shortcuts) = 0
        THEN Without(a, "shortcuts") ELSE a

SetHref(html, href) ==
    [links |-> [i \in DOMAIN html.links |-> Link(href)]]

\* mutant: the old manifest is left in the bundle
FinalizeBundleKeepsOld(bundle, b, manifestfileName, manifestExt) ==
    [fileName \in DOMAIN bundle |->
        LET fileChunk == bundle[fileName]
        IN  IF /\ EndsWith(fileName, HTML_EXTENSION)
               /\ fileChunk.type = "asset"
               /\ fileChunk.str
               /\ Len(fileChunk.source.links) > 0
            THEN [fileChunk EXCEPT !.source = SetHref(@, b \o manifestfileName)]
            ELSE fileChunk]

\* mutant: the href is the bare file name, without the base
FinalizeBundleNoBase(bundle, b, manifestfileName, manifestExt) ==
    LET kept == {fileName \in DOMAIN bundle :
                    ~(EndsWith(fileName, manifestExt) /\ fileName # manifestfileName)}
    IN  [fileName \in kept |->
            LET fileChunk == bundle[fileName]
            IN  IF /\ EndsWith(fileName, HTML_EXTENSION)
                   /\ fileChunk.type = "asset"
                   /\ fileChunk.str
                   /\ Len(fileChunk.source.links) > 0
                THEN [fileChunk EXCEPT !.source = SetHref(@, manifestfileName)]
                ELSE fileChunk]

\* the single pass through the bundle: update HTML and remove the old manifest
FinalizeBundle(bundle, b, manifestfileName, manifestExt) ==
    LET kept == {fileName \in DOMAIN bundle :
                    ~(EndsWith(fileName, manifestExt) /\ fileName # manifestfileName)}
    IN  [fileName \in kept |->
            LET fileChunk == bundle[fileName]
            IN  IF /\ EndsWith(fileName, HTML_EXTENSION)
                   /\ fileChunk.type = "asset"
                   /\ fileChunk.str
                   /\ Len(fileChunk.source.links) > 0
                THEN [fileChunk EXCEPT !.source = SetHref(@, b \o manifestfileName)]
                ELSE fileChunk]

\* mutant: generateBundle goes on as soon as no operation has rejected
NoneRejected(tasks) ==
    \A t \in DOMAIN tasks : tasks[t].pc # "rejected"

\* await Promise.all([...]): every operation of the pass has fulfilled
AllFulfilled(tasks) ==
    \A t \in DOMAIN tasks : tasks[t].pc = "done"

\* after Promise.all: prune, emit the manifest, rewrite the bundle, clear caches
GenerateBundleFinish ==
    /\ cur > 0
    /\ pass[cur].phase = "running"
    /\ ~pass[cur].thrown
    /\ AllFulfilled(pass[cur].tasks)
    /\ LET json == PruneEmpty(pass[cur].json)
           manifestPath == pass[cur].manifestPath
           manifestExt == ExtName(manifestPath)
           manifestName == BaseName(manifestPath, manifestExt)
           manifestContent == JsonStringify(json, 4)
           manifestfileName == HostFileName(assetsDir, manifestName \o manifestExt,
                                            manifestContent)
           emittedBundle == Put(pass[cur].bundle, manifestfileName,
                                TextEntry(manifestContent))
       IN  /\ storedManifestFileName' =
                 IF manifestOutput = "root" THEN manifestfileName
                 ELSE storedManifestFileName
           /\ pass' = [pass EXCEPT
                 ![cur].phase = "done",
                 ![cur].json = json,
                 ![cur].manifestfileName = manifestfileName,
                 ![cur].bundle = FinalizeBundle(emittedBundle, base, manifestfileName,
                                                manifestExt)]
    /\ fileCache' = EmptyMap
    /\ pathCache' = EmptyMap
    /\ UNCHANGED <<configured, base, options, manifestOutput, assetsDir, watch, disk, edits, cur,
                   dist>>

\* ------------------------------------------------ after generateBundle
\* the host writes the bundle to the output directory
HostWriteOutput ==
    /\ cur > 0
    /\ pass[cur].phase = "done"
    /\ dist' = [fileName \in DOMAIN pass[cur].bundle |-> pass[cur].bundle[fileName].source]
    /\ pass' = [pass EXCEPT ![cur].phase = "written"]
    /\ UNCHANGED <<configured, base, options, manifestOutput, assetsDir, watch, disk, edits,
                   fileCache, pathCache, storedManifestFileName, cur>>

\* storedManifestFileName.replace(/^assets\//, '')
StripAssets(fileName) ==
    IF StartsWith(fileName, <<"assets/">>) THEN Slice(fileName, 1) ELSE fileName

OutIndex ==
    <<"index", ".html">>

\* updateHtmlManifestLinks(outputDir, manifestFileName); its own try/catch
\* swallows a failed read or write
updateHtmlManifestLinks(out, manifestFileName, fails) ==
    IF OutIndex \in DOMAIN out /\ ~fails /\ Len(out[OutIndex].links) > 0
    THEN [out EXCEPT ![OutIndex] = SetHref(@, <<"./">> \o manifestFileName)]
    ELSE out

WriteFailures ==
    {"none", "read", "write", "html", "unlink"}

\* writeBundle's relocation of the manifest, failing at step `fail`
Relocate(out, stored, fail) ==
    IF stored \notin DOMAIN out THEN out
    ELSE LET manifestFileName == StripAssets(stored)
             written == Put(out, manifestFileName, out[stored])
             linked == updateHtmlManifestLinks(written, manifestFileName, fail = "html")
         IN  IF fail \in {"read", "write"} THEN out
             ELSE IF fail = "unlink" THEN linked
             ELSE [fileName \in DOMAIN linked \ {stored} |-> linked[fileName]]

\* what console.error is called with when writeBundle's relocation fails
Logged(fail) ==
    IF fail = "none" THEN {}
    ELSE IF fail = "html" THEN {"Failed to update HTML"}
    ELSE {"Failed to move manifest"}

\* the filesystem failures that can strike the relocation of `stored` in `out`
PossibleFailures(out, stored) ==
    IF stored \notin DOMAIN out THEN {"none"}
    ELSE {fail \in WriteFailures : fail = "html" => OutIndex \in DOMAIN out}

\* mutant: a filesystem failure leaves writeBundle rejected
WriteBundleOutcomeRejects(fail) ==
    IF fail = "none" THEN "finished" ELSE "failed"

\* every failure is caught: writeBundle returns
WriteBundleOutcome(fail) ==
    "finished"

WriteBundle ==
    /\ cur > 0
    /\ pass[cur].phase = "written"
    /\ IF manifestOutput = "root" /\ storedManifestFileName # <<>>
       THEN \E fail \in PossibleFailures(dist, storedManifestFileName) :
               /\ dist' = Relocate(dist, storedManifestFileName, fail)
               /\ pass' = [pass EXCEPT ![cur].phase = WriteBundleOutcome(fail),
                                       ![cur].fault = fail,
                                       ![cur].log = Logged(fail)]
       ELSE /\ dist' = dist
            /\ pass' = [pass EXCEPT ![cur].phase = "finished", ![cur].fault = "none"]
    /\ UNCHANGED <<configured, base, options, manifestOutput, assetsDir, watch, disk, edits,
                   fileCache, pathCache, storedManifestFileName, cur>>

\* between two passes of a watch session some project files are changed or created
EditFiles(F) ==
    /\ watch
    /\ edits < MaxEdits
    /\ cur > 0
    /\ pass[cur].phase \in Ended
    /\ edits' = edits + 1
    /\ disk' = [f \in DOMAIN disk \cup F |->
                  IF f \notin F THEN disk[f]
                  ELSE IF f \in DOMAIN disk THEN EditedBytes(f) ELSE FirstBytes(f)]
    /\ UNCHANGED <<configured, base, options, manifestOutput, assetsDir, watch, fileCache,
                   pathCache, storedManifestFileName, cur, pass, dist>>

Next ==
    \/ ConfigResolved
    \/ GenerateBundleStart
    \/ GenerateBundleLocate
    \/ \E k \in Passes : \E t \in 1..Len(pass[k].tasks) : IconOperationResume(k, t)
    \/ GenerateBundleReject
    \/ GenerateBundleFinish
    \/ HostWriteOutput
    \/ WriteBundle
    \/ \E F \in SUBSET AssetFiles \ {{}} : EditFiles(F)

Spec ==
    Init /\ [][Next]_vars

\* ------------------------------------------------------------------ claims
\* generateBundle of pass k has completed successfully
Completed(k) ==
    pass[k].phase \in {"done", "written", "finished"}

IsHtmlText(bundle, fileName) ==
    /\ EndsWith(fileName, HTML_EXTENSION)
    /\ bundle[fileName].type = "asset"
    /\ bundle[fileName].str

\* C1: after generateBundle completes successfully, the bundle holds exactly one
\* entry whose name ends with the manifest file's extension, and that entry is
\* the manifest emitted in this pass (every other such entry has been deleted).
C1_OneManifestInBundle ==
    \A k \in Passes : Completed(k) =>
        LET manifestExt == ExtName(pass[k].manifestPath)
            emitted == pass[k].manifestfileName
        IN  /\ {n \in DOMAIN pass[k].bundle : EndsWith(n, manifestExt)} = {emitted}
            /\ pass[k].bundle[emitted] = TextEntry(JsonStringify(pass[k].json, 4))

\* a completed pass whose bundle came with the host's copy of the manifest and
\* another file of that extension
C1_Witness ==
    \E k \in Passes :
        /\ Completed(k)
        /\ Cardinality({n \in DOMAIN pass[k].given :
                           EndsWith(n, ExtName(pass[k].manifestPath))}) >= 2
        /\ pass[k].manifestfileName \notin DOMAIN pass[k].given

\* C2: after generateBundle completes successfully, every HTML asset of the
\* bundle with a string source and a manifest link has that link's href equal to
\* the base path followed by the host-assigned name of the emitted manifest.
C2_HtmlHrefIsBasePlusManifest ==
    \A k \in Passes : Completed(k) =>
        \A n \in DOMAIN pass[k].bundle :
            IsHtmlText(pass[k].bundle, n) =>
                \A i \in DOMAIN pass[k].bundle[n].source.links :
                    pass[k].bundle[n].source.links[i]
                        = [has |-> TRUE, href |-> base \o pass[k].manifestfileName]

\* a completed pass that rewrote the link of two HTML outputs
C2_Witness ==
    \E k \in Passes :
        /\ Completed(k)
        /\ Cardinality({n \in DOMAIN pass[k].bundle :
                /\ IsHtmlText(pass[k].bundle, n)
                /\ Len(pass[k].bundle[n].source.links) > 0
                /\ pass[k].bundle[n] # pass[k].given[n]}) >= 2

\* the fatal inputs of C3, read off the project directory
FatalInput ==
    \/ IndexPath \notin DOMAIN disk
    \/ disk[IndexPath].links = <<>>
    \/ ~disk[IndexPath].links[1].has
    \/ disk[IndexPath].links[1].href = <<>>
    \/ LET href == disk[IndexPath].links[1].href
           target == Root \o (IF Head(href) = "/" THEN Tail(href) ELSE href)
       IN  target \notin DOMAIN disk \/ ~disk[target].valid

\* C3: when index.html is missing, has no manifest link or an empty href, the
\* manifest path does not exist or its content is not valid JSON, generateBundle
\* fails, before any emitFile call and before any bundle entry is modified or
\* deleted.
C3_FatalInputFailsUntouched ==
    \A k \in Passes :
        (FatalInput /\ pass[k].phase \notin {"idle", "begun"}) =>
            /\ pass[k].phase = "failed"
            /\ pass[k].emitted = {}
            /\ pass[k].manifestfileName = <<>>
            /\ pass[k].bundle = pass[k].given

\* a pass that failed on a manifest that is not valid JSON
C3_Witness ==
    \E k \in Passes :
        /\ pass[k].phase = "failed"
        /\ pass[k].manifestPath # <<>>
        /\ ~disk[pass[k].manifestPath].valid

\* the icon, screenshot and shortcut-icon entries of a manifest
Addresses(json) ==
    UNION {{[coll |-> c, i |-> i, j |-> 0] : i \in DOMAIN json[c]} :
              c \in {"icons", "screenshots"} \cap DOMAIN json}
    \cup (IF Has(json, "shortcuts")
          THEN UNION {{[coll |-> "shortcuts", i |-> i, j |-> j] :
                          j \in DOMAIN json.shortcuts[i].icons} :
                      i \in {n \in DOMAIN json.shortcuts : Has(json.shortcuts[n], "icons")}}
          ELSE {})

EntryAt(json, a) ==
    IF a.coll = "shortcuts" THEN json.shortcuts[a.i].icons[a.j] ELSE json[a.coll][a.i]

\* the manifest a completed pass emitted, parsed back from the bundle
EmittedManifest(k) ==
    JsonParse(pass[k].bundle[pass[k].manifestfileName].source)

\* the source file of an entry of the input manifest, and whether the pass saw it
SourceFile(k, a) ==
    resolveIconPath(EntryAt(pass[k].input, a).src, Root)

Existed(k, a) ==
    SourceFile(k, a) \in pass[k].files

\* C4: in the manifest emitted by a successful pass, every icons, screenshots and
\* shortcuts[].icons entry whose source file exists has its src replaced by the
\* reference of the asset emitted for that file; none keeps its original src.
C4_ExistingEntriesAreRewritten ==
    \A k \in Passes : Completed(k) =>
        \A a \in Addresses(pass[k].input) :
            Existed(k, a) =>
                /\ EntryAt(EmittedManifest(k), a).src # EntryAt(pass[k].input, a).src
                /\ \E e \in pass[k].emitted :
                      /\ e.path = SourceFile(k, a)
                      /\ EndsWith(EntryAt(EmittedManifest(k), a).src, e.fileName)

\* a completed pass with an icon, a screenshot and a shortcut icon
C4_Witness ==
    \E k \in Passes :
        /\ Completed(k)
        /\ {a.coll : a \in Addresses(pass[k].input)} = {"icons", "screenshots", "shortcuts"}

\* C5: no emitted manifest holds an icons, screenshots or shortcut-icon entry
\* whose src is still the original reference to a file that does not exist.
C5_NoUnresolvedMissingReference ==
    \A k \in Passes : Completed(k) =>
        \A a \in Addresses(pass[k].input) :
            ~(/\ ~Existed(k, a)
              /\ EntryAt(EmittedManifest(k), a).src = EntryAt(pass[k].input, a).src)

\* a pass over a manifest with a reference to a missing file has ended, another
\* operation of it has emitted its asset, and no manifest was emitted
C5_Witness ==
    \E k \in Passes :
        /\ pass[k].phase = "failed"
        /\ \E a \in Addresses(pass[k].input) : ~Existed(k, a)
        /\ pass[k].emitted # {}
        /\ pass[k].manifestfileName = <<>>

C7_ScopeAndStartUrlAreBase ==
    \A k \in Passes : Completed(k) =>
        /\ Has(EmittedManifest(k), "scope") /\ EmittedManifest(k).scope = base
        /\ Has(EmittedManifest(k), "start_url") /\ EmittedManifest(k).start_url = base

\* completed passes whose input had another scope and start_url
C7_Witness ==
    \E k \in Passes :
        /\ Completed(k)
        /\ Has(pass[k].input, "start_url")
        /\ pass[k].input.start_url # base

\* C8: in a pass that has completed, the content handed to emitFile for every
\* icon, screenshot and shortcut icon is the content of its source file.
C8_EmittedBytesAreSourceBytes ==
    (cur > 0 /\ pass[cur].phase \in {"done", "written"}) =>
        \A e \in pass[cur].emitted : e.source = disk[e.path]

\* C9 as claimed: every rewritten src of an emitted manifest is the base path
\* followed by the name the host gave the emitted asset.
C9_SrcIsBasePlusHostName ==
    \A k \in Passes : Completed(k) =>
        \A a \in Addresses(pass[k].input) :
            \E e \in pass[k].emitted :
                /\ e.path = SourceFile(k, a)
                /\ EntryAt(EmittedManifest(k), a).src = base \o e.fileName

\* C9, amended: every rewritten src of an emitted manifest is "./" followed by
\* the name the host gave the emitted asset, whatever the base path is.
C9_SrcIsDotSlashPlusHostName ==
    \A k \in Passes : Completed(k) =>
        \A a \in Addresses(pass[k].input) :
            \E e \in pass[k].emitted :
                /\ e.path = SourceFile(k, a)
                /\ e.fileName = HostFileName(assetsDir, e.name, e.source)
                /\ EntryAt(EmittedManifest(k), a).src = <<"./">> \o e.fileName

\* a completed pass under base "/" with a rewritten entry
C9_Witness ==
    \E k \in Passes :
        /\ Completed(k)
        /\ base = <<"/">>
        /\ Addresses(pass[k].input) # {}

\* the directory part of an output path
DirName(p) ==
    SubSeq(p, 1, Len(p) - Len(LastSegment(p)))

\* where the manifest of the last pass lies in the output directory
ManifestLocations ==
    {m \in {pass[cur].manifestfileName, StripAssets(pass[cur].manifestfileName)} :
        m \in DOMAIN dist}

\* C10: once the output is written, every src of the manifest, resolved against
\* the directory the manifest lies in, is the output path of the emitted asset.
C10_SrcResolvesToTheAsset ==
    (cur > 0 /\ pass[cur].phase = "finished" /\ ExtName(pass[cur].manifestPath) # <<>>) =>
        \A m \in ManifestLocations :
            \A a \in Addresses(pass[cur].input) :
                \E e \in pass[cur].emitted :
                    /\ e.path = SourceFile(cur, a)
                    /\ e.fileName \in DOMAIN dist
                    /\ DirName(m) \o Normalize(EntryAt(EmittedManifest(cur), a).src)
                          = e.fileName

\* the last pass has gone through generateBundle and writeBundle, and no
\* filesystem failure struck writeBundle
PipelineDone ==
    cur > 0 /\ pass[cur].phase = "finished" /\ pass[cur].fault = "none"

\* the manifest links of index.html in the output directory
IndexLinks ==
    IF OutIndex \in DOMAIN dist THEN dist[OutIndex].links ELSE <<>>

\* C11: a plugin created without options places the manifest as policy 'assets'
\* does: after the pipeline the manifest is where the host put it (the assets
\* subfolder) and index.html's manifest href is base + that name.
C11_DefaultPlacementIsAssets ==
    (PipelineDone /\ options = "undefined") =>
        /\ pass[cur].manifestfileName \in DOMAIN dist
        /\ \A i \in DOMAIN IndexLinks :
              IndexLinks[i] = Link(base \o pass[cur].manifestfileName)

\* C12: with manifestOutput 'assets', after generateBundle and writeBundle the
\* output directory is exactly what the host wrote, the manifest lies at its
\* host-assigned name under the assets directory, and index.html's manifest
\* href is base followed by that name.
C12_AssetsPlacement ==
    (cur > 0 /\ pass[cur].phase = "finished" /\ options = "assets") =>
        /\ DOMAIN dist = DOMAIN pass[cur].bundle
        /\ \A n \in DOMAIN dist : dist[n] = pass[cur].bundle[n].source
        /\ pass[cur].manifestfileName \in DOMAIN dist
        /\ StartsWith(pass[cur].manifestfileName, assetsDir)
        /\ \A i \in DOMAIN IndexLinks :
              IndexLinks[i] = Link(base \o pass[cur].manifestfileName)

\* the pipeline has run under 'assets' with base "/" and index.html has a link
C12_Witness ==
    /\ cur > 0 /\ pass[cur].phase = "finished" /\ options = "assets"
    /\ base = <<"/">>
    /\ assetsDir = <<"assets/">>
    /\ Len(IndexLinks) > 0

\* C13: with manifestOutput 'root', after generateBundle and writeBundle the
\* manifest lies at the top level of the output directory, no copy of it is
\* left under the assets subfolder, and no manifest href of index.html has an
\* 'assets' segment.
C13_RootPlacement ==
    (PipelineDone /\ options = "root") =>
        LET manifestFileName == StripAssets(pass[cur].manifestfileName)
        IN  /\ manifestFileName \in DOMAIN dist
            /\ ~StartsWith(manifestFileName, <<"assets/">>)
            /\ <<"assets/">> \o manifestFileName \notin DOMAIN dist
            /\ \A i \in DOMAIN IndexLinks :
                  \A j \in DOMAIN IndexLinks[i].href : IndexLinks[i].href[j] # "assets/"

\* C14: after the pipeline every manifest href of the output index.html starts
\* with the base path, and under 'root' it is exactly base followed by the
\* manifest's name at the top level.
C14_HrefStartsWithBase ==
    PipelineDone =>
        \A i \in DOMAIN IndexLinks :
            /\ IndexLinks[i].has
            /\ StartsWith(IndexLinks[i].href, base)
            /\ manifestOutput = "root" =>
                  IndexLinks[i].href = base \o StripAssets(pass[cur].manifestfileName)

\* C15: when the screenshots array of the manifest is empty, the emitted
\* manifest has no screenshots key; likewise for an empty shortcuts array.
C15_EmptyScreenshotsAndShortcutsArePruned ==
    \A k \in Passes : Completed(k) =>
        \A c \in {"screenshots", "shortcuts"} :
            (Has(pass[k].input, c) /\ Len(pass[k].input[c]) = 0) =>
                ~Has(EmittedManifest(k), c)

\* a completed pass whose manifest had both arrays empty
C15_Witness ==
    \E k \in Passes :
        /\ Completed(k)
        /\ Has(pass[k].input, "screenshots") /\ pass[k].input.screenshots = <<>>
        /\ Has(pass[k].input, "shortcuts") /\ pass[k].input.shortcuts = <<>>

\* C16 as claimed: no emitted manifest has icons, screenshots or shortcuts
\* present as an empty sequence.
C16_NoEmptyCollection ==
    \A k \in Passes : Completed(k) =>
        \A c \in {"icons", "screenshots", "shortcuts"} :
            Has(EmittedManifest(k), c) => Len(EmittedManifest(k)[c]) > 0

\* C16, amended: no emitted manifest has screenshots or shortcuts present as an
\* empty sequence; icons is emitted whenever the input has it, with as many
\* entries, an empty icons sequence included.
C16_NoEmptyCollectionButIcons ==
    \A k \in Passes : Completed(k) =>
        /\ \A c \in {"screenshots", "shortcuts"} :
              Has(EmittedManifest(k), c) => Len(EmittedManifest(k)[c]) > 0
        /\ Has(EmittedManifest(k), "icons") <=> Has(pass[k].input, "icons")
        /\ Has(pass[k].input, "icons") =>
              Len(EmittedManifest(k).icons) = Len(pass[k].input.icons)

\* a completed pass whose manifest had an empty icons array
C16_Witness ==
    \E k \in Passes :
        /\ Completed(k)
        /\ Has(pass[k].input, "icons") /\ pass[k].input.icons = <<>>
        /\ Has(EmittedManifest(k), "icons")

\* an entry without its src
NoSrc(entry) ==
    [entry EXCEPT !.src = <<>>]

\* a manifest without what processing is meant to change: scope, start_url
\* and the src of every icon, screenshot and shortcut icon
Skeleton(json) ==
    [key \in DOMAIN json \ {"scope", "start_url"} |->
        IF key \in {"icons", "screenshots"}
        THEN [i \in DOMAIN json[key] |-> NoSrc(json[key][i])]
        ELSE IF key = "shortcuts"
        THEN [i \in DOMAIN json[key] |->
                 [json[key][i] EXCEPT !.icons = [j \in DOMAIN @ |-> NoSrc(@[j])]]]
        ELSE json[key]]

\* the keys removed for being empty arrays
EmptyKeys(json) ==
    {c \in {"screenshots", "shortcuts"} \cap DOMAIN json : Len(json[c]) = 0}

\* C17: apart from scope, start_url, the src of the entries and the removed
\* empty screenshots/shortcuts keys, the emitted manifest is the input manifest:
\* same other fields, same sizes, type, name, url, description, same number and
\* order of entries.
C17_NothingElseChanges ==
    \A k \in Passes : Completed(k) =>
        /\ DOMAIN Skeleton(EmittedManifest(k))
              = DOMAIN Skeleton(pass[k].input) \ EmptyKeys(pass[k].input)
        /\ \A key \in DOMAIN Skeleton(EmittedManifest(k)) :
              Skeleton(EmittedManifest(k))[key] = Skeleton(pass[k].input)[key]

\* a completed pass over a manifest with unrecognized fields, icons,
\* screenshots, a shortcut with an icon and its own scope
C17_Witness ==
    \E k \in Passes :
        /\ Completed(k)
        /\ {"name", "display", "scope"} \subseteq DOMAIN pass[k].input
        /\ {a.coll : a \in Addresses(pass[k].input)} = {"icons", "screenshots", "shortcuts"}
        /\ \E a \in Addresses(pass[k].input) : a.coll = "icons" /\ a.i = 2

\* passes j and k ran on the same project files
SameInputs(j, k) ==
    /\ DOMAIN pass[j].snapshot = DOMAIN pass[k].snapshot
    /\ \A f \in DOMAIN pass[j].snapshot : pass[j].snapshot[f] = pass[k].snapshot[f]

\* C18: two completed passes over the same manifest, HTML and asset files emit
\* the same manifest content, whatever the order in which their asset
\* operations completed and whatever the caches held.
C18_SameInputsSameManifest ==
    \A j, k \in Passes :
        (j < k /\ Completed(j) /\ Completed(k) /\ SameInputs(j, k)) =>
            EmittedManifest(j) = EmittedManifest(k)

HrefTarget(href) ==
    IF StartsWith(href, base) THEN Slice(href, Len(base)) ELSE Normalize(href)

\* C20: under 'root', after writeBundle every manifest link of every HTML file
\* that generateBundle rewrote refers to the relocated manifest, and that file
\* exists in the output directory.
C20_EveryHtmlRefersToRelocatedManifest ==
    (cur > 0 /\ pass[cur].phase = "finished" /\ manifestOutput = "root") =>
        \A n \in DOMAIN dist :
            (n \in DOMAIN pass[cur].bundle /\ IsHtmlText(pass[cur].bundle, n)) =>
                \A i \in DOMAIN dist[n].links :
                    /\ HrefTarget(dist[n].links[i].href) \in DOMAIN dist
                    /\ HrefTarget(dist[n].links[i].href)
                          = StripAssets(pass[cur].manifestfileName)

\* C21: within one pass no file is read from disk by more than one of the
\* operations that reference it.
C21_EachFileReadOnce ==
    \A k \in Passes :
        \A t, u \in DOMAIN pass[k].tasks :
            (t # u /\ pass[k].tasks[t].path = pass[k].tasks[u].path) =>
                ~(pass[k].tasks[t].read /\ pass[k].tasks[u].read)

\* C22: while a pass is running, every getCachedFile call that returns hands
\* back content its own file has had on disk, and no entry of fileCache is
\* replaced by different content.
C22_CacheEntriesAreStable ==
    [][(cur > 0 /\ pass[cur].phase = "running" /\ pass'[cur].phase = "running") =>
          /\ \A p \in DOMAIN fileCache \cap DOMAIN fileCache' : fileCache'[p] = fileCache[p]
          /\ \A k \in Passes : \A t \in DOMAIN pass'[k].tasks :
                pass'[k].tasks[t].pc = "done" =>
                    pass'[k].tasks[t].bytes \in {FirstBytes(pass'[k].tasks[t].path),
                                                 EditedBytes(pass'[k].tasks[t].path)}]_vars

\* C23: fileCache and pathCache are both empty when a pass begins its work and
\* both empty once the pass has ended, whether generateBundle returned or threw.
C23_CachesEmptyAtBothEnds ==
    (cur > 0 /\ pass[cur].phase \in {"begun", "failed", "done", "written", "finished"}) =>
        /\ DOMAIN fileCache = {}
        /\ DOMAIN pathCache = {}

\* C24: no pass that is running or has completed has emitted, for any path,
\* content other than what the file held while the pass ran, that is, content
\* read before the pass began.
C24_NoBytesFromBeforeThePass ==
    \A k \in Passes :
        pass[k].phase \in {"running", "done", "written", "finished"} =>
            \A e \in pass[k].emitted : e.source = pass[k].snapshot[e.path]

\* C25: once a pass has emitted its manifest every operation it started has
\* finished, and from then on no asset is emitted and no src is rewritten.
C25_ManifestEmittedLast ==
    [][\A k \in Passes : pass[k].manifestfileName # <<>> =>
          /\ \A t \in DOMAIN pass[k].tasks : pass[k].tasks[t].pc = "done"
          /\ pass'[k].emitted = pass[k].emitted
          /\ pass'[k].json = pass[k].json]_vars

C25_Witness ==
    \E k \in Passes :
        /\ pass[k].phase = "finished"
        /\ pass[k].manifestfileName # <<>>
        /\ Len(pass[k].tasks) >= 2
        /\ Cardinality(pass[k].emitted) >= 2

\* C26: an entry whose source file does not exist causes no emitFile call and
\* keeps the src it had in the input manifest.
C26_MissingEntryUntouched ==
    \A k \in Passes : pass[k].phase \notin {"idle", "begun"} =>
        \A a \in Addresses(pass[k].input) :
            ~Existed(k, a) =>
                /\ EntryAt(pass[k].json, a).src = EntryAt(pass[k].input, a).src
                /\ \A e \in pass[k].emitted : e.path # SourceFile(k, a)

C26_Witness ==
    \E k \in Passes :
        /\ pass[k].phase = "failed"
        /\ \E a \in Addresses(pass[k].input) : ~Existed(k, a)
        /\ pass[k].emitted # {}
        /\ \A t \in DOMAIN pass[k].tasks : pass[k].tasks[t].pc \in {"done", "rejected"}

\* C27: after generateBundle has completed, every HTML entry the host handed
\* over and every asset the pass emitted is still in the bundle.
C27_OnlyManifestCopiesRemoved ==
    \A k \in Passes : Completed(k) =>
        /\ \A fileName \in DOMAIN pass[k].given :
              EndsWith(fileName, HTML_EXTENSION) => fileName \in DOMAIN pass[k].bundle
        /\ \A e \in pass[k].emitted : e.fileName \in DOMAIN pass[k].bundle

\* C28: once generateBundle has failed, no operation of that pass emits a
\* file, writes to fileCache or rewrites a src.
C28_FailedPassIsQuiet ==
    [][\A k \in Passes :
          (pass[k].phase = "failed" /\ pass'[k].phase = "failed") =>
              /\ pass'[k].emitted = pass[k].emitted
              /\ pass'[k].json = pass[k].json
              /\ \A t \in DOMAIN pass[k].tasks :
                    pass'[k].tasks[t].pc # pass[k].tasks[t].pc => fileCache' = fileCache]_vars

\* C29: in root placement a manifest file is in the output directory once
\* writeBundle has returned, under the name the host gave it or under that
\* name without its assets/ prefix.
C29_RootManifestSurvives ==
    (cur > 0 /\ pass[cur].phase = "finished" /\ manifestOutput = "root") =>
        \/ pass[cur].manifestfileName \in DOMAIN dist
        \/ StripAssets(pass[cur].manifestfileName) \in DOMAIN dist

\* C30: a pass over a manifest with a shortcut that has no icons member does
\* not fail.
C30_ShortcutWithoutIconsIsSkipped ==
    \A k \in Passes : pass[k].thrown => pass[k].phase # "failed"

====
